---- MODULE Spec2Model ----
(***************************************************************************)
(* A model of src/main.py: the heading extractor, the section ranker, the  *)
(* subsection extractor and the request loop.                               *)
(*                                                                         *)
(* Text is a sequence of one-character strings, so that the string         *)
(* operations of the code (strip, split, lower, re.sub, substring test)    *)
(* are computed character by character.                                    *)
(***************************************************************************)
EXTENDS Integers, Sequences, FiniteSets, TLC

VARIABLES
    hDoc,        \* extract_headings_and_pages: the pages of the document
    hPage,       \* extract_headings_and_pages: pages processed so far
    hSections,   \* extract_headings_and_pages: the list `sections`
    hHeadings,   \* per processed page, the lines the classification took as headings
    hFallback,   \* per processed page, the titles the fallback appended
    hUnique,     \* extract_headings_and_pages: the returned list
    hPc,         \* extract_headings_and_pages: "pages" | "dedup" | "done" | "idle"
    sRanked,     \* extract_subsections: the ranked sections given
    sSeed,       \* extract_subsections: which embedder scores are in force
    sIdx,        \* extract_subsections: sections processed so far
    sAll,        \* extract_subsections: the list `all_paragraphs`
    sLog,        \* per processed section, how its iteration ended
    sAdded,      \* per processed section, the passages it appended
    sFinal,      \* extract_subsections: the returned list
    sPc,         \* extract_subsections: "sections" | "sort" | "done" | "idle"
    mFiles,      \* process_round_1b: the request files glob returned
    mIdx,        \* process_round_1b: request files processed so far
    mLog,        \* per processed request file, how its iteration ended
    mOut,        \* the output files written: <<prefix, result>> pairs
    mPc,         \* process_round_1b: "requests" | "done" | "idle"
    rSections,   \* rank_sections: the candidate list `sections`
    rTab,        \* rank_sections: the embedder's score table in force
    rOut,        \* rank_sections: the returned list
    rPc          \* rank_sections: "input" | "done"

headVars == <<hDoc, hPage, hSections, hHeadings, hFallback, hUnique, hPc>>
rankVars == <<rSections, rTab, rOut, rPc>>
subVars == <<sRanked, sSeed, sIdx, sAll, sLog, sAdded, sFinal, sPc>>
mainVars == <<mFiles, mIdx, mLog, mOut, mPc>>
vars == <<headVars, rankVars, subVars, mainVars>>

MainIdle ==
    /\ mFiles = <<>> /\ mIdx = 0 /\ mLog = <<>> /\ mOut = {} /\ mPc = "idle"

SubIdle ==
    /\ sRanked = <<>> /\ sSeed = 0 /\ sIdx = 0 /\ sAll = <<>> /\ sLog = <<>>
    /\ sAdded = <<>> /\ sFinal = <<>> /\ sPc = "idle"

HeadIdle ==
    /\ hDoc = <<>> /\ hPage = 0 /\ hSections = <<>> /\ hHeadings = <<>>
    /\ hFallback = <<>> /\ hUnique = <<>> /\ hPc = "idle"

RankIdle ==
    /\ rSections = <<>> /\ rTab = <<>> /\ rOut = <<>> /\ rPc = "idle"

----------------------------------------------------------------------------
(* Strings *)

Rep(c, n) == [i \in 1..n |-> c]

IsWs(c) == c \in {" ", "\n"}

IsPunctEnd(c) == c \in {".", "!", "?"}

\* Characters matched by \w in the model's alphabet.
IsWordCh(c) == c \in {"a", "b", "c", "d", "e", "f", "g", "h", "A", "B", "C", "H"}

LowerCh(c) ==
    CASE c = "A" -> "a"
      [] c = "B" -> "b"
      [] c = "C" -> "c"
      [] c = "H" -> "h"
      [] OTHER -> c

IsUpperCh(c) == c \in {"A", "B", "C", "H"}

IsLowerCh(c) == c \in {"a", "b", "c", "d", "e", "f", "g", "h"}

Lower(s) == [i \in 1..Len(s) |-> LowerCh(s[i])]

\* str.isupper(): at least one cased character and no lower-case one.
IsUpper(s) ==
    /\ \E i \in 1..Len(s) : IsUpperCh(s[i])
    /\ \A i \in 1..Len(s) : ~IsLowerCh(s[i])

\* str.strip()
Strip(s) ==
    IF \A i \in 1..Len(s) : IsWs(s[i]) THEN <<>>
    ELSE LET a == CHOOSE i \in 1..Len(s) :
                      ~IsWs(s[i]) /\ \A j \in 1..(i - 1) : IsWs(s[j])
             b == CHOOSE i \in 1..Len(s) :
                      ~IsWs(s[i]) /\ \A j \in (i + 1)..Len(s) : IsWs(s[j])
         IN  SubSeq(s, a, b)

\* re.sub(r'\s+', ' ', s)
CollapseWs(s) ==
    LET idx  == [i \in 1..Len(s) |-> i]
        keep == SelectSeq(idx, LAMBDA i : ~(IsWs(s[i]) /\ i > 1 /\ IsWs(s[i - 1])))
    IN  [k \in 1..Len(keep) |-> IF IsWs(s[keep[k]]) THEN " " ELSE s[keep[k]]]

\* re.sub(r'[^\w\s]', '', s)
StripPunct(s) == SelectSeq(s, LAMBDA c : IsWordCh(c) \/ IsWs(c))

\* s.split(c) for a one-character separator c
RECURSIVE SplitChar(_, _)
SplitChar(s, c) ==
    IF \A i \in 1..Len(s) : s[i] # c THEN <<s>>
    ELSE LET p == CHOOSE i \in 1..Len(s) :
                      s[i] = c /\ \A j \in 1..(i - 1) : s[j] # c
         IN  <<SubSeq(s, 1, p - 1)>> \o SplitChar(SubSeq(s, p + 1, Len(s)), c)

\* s.split('\n\n')
RECURSIVE SplitBlank(_)
SplitBlank(s) ==
    LET hit(i) == s[i] = "\n" /\ s[i + 1] = "\n"
    IN  IF \A i \in 1..(Len(s) - 1) : ~hit(i) THEN <<s>>
        ELSE LET p == CHOOSE i \in 1..(Len(s) - 1) :
                          hit(i) /\ \A j \in 1..(i - 1) : ~hit(j)
             IN  <<SubSeq(s, 1, p - 1)>> \o SplitBlank(SubSeq(s, p + 2, Len(s)))

\* s.split(): the whitespace-separated words
Words(s) ==
    LET t == Strip(CollapseWs(s))
    IN  IF t = <<>> THEN <<>> ELSE SplitChar(t, " ")

\* re.split(r'(?<=[.!?])\s+', s)
RECURSIVE SplitSentences(_)
SplitSentences(s) ==
    LET hit(i) == IsWs(s[i]) /\ i > 1 /\ IsPunctEnd(s[i - 1])
    IN  IF \A i \in 1..Len(s) : ~hit(i) THEN <<s>>
        ELSE LET p == CHOOSE i \in 1..Len(s) :
                          hit(i) /\ \A j \in 1..(i - 1) : ~hit(j)
                 q == IF \A j \in p..Len(s) : IsWs(s[j]) THEN Len(s) + 1
                      ELSE CHOOSE i \in p..Len(s) :
                               ~IsWs(s[i]) /\ \A j \in p..(i - 1) : IsWs(s[j])
             IN  <<SubSeq(s, 1, p - 1)>> \o SplitSentences(SubSeq(s, q, Len(s)))

\* ' '.join(parts)
RECURSIVE JoinSp(_)
JoinSp(parts) ==
    IF parts = <<>> THEN <<>>
    ELSE IF Len(parts) = 1 THEN parts[1]
    ELSE parts[1] \o <<" ">> \o JoinSp(Tail(parts))

Range(f) == {f[i] : i \in DOMAIN f}

\* x in y (substring test)
Contains(x, y) ==
    \E i \in 0..(Len(y) - Len(x)) : SubSeq(y, i + 1, i + Len(x)) = x

EndsWith(s, c) == Len(s) > 0 /\ s[Len(s)] = c

CountCh(s, c) == Cardinality({i \in 1..Len(s) : s[i] = c})

\* re.sub(r'\s+', ' ', title.lower().strip())
NormTitle(t) == CollapseWs(Strip(Lower(t)))


----------------------------------------------------------------------------
(* rank_sections *)

MaxCands == 6

TopN == 5

\* Section titles the candidates are drawn from: two spellings of one
\* normalized title, and five more titles.
TitlePool ==
    << <<"A", " ", "b">>, <<"a", " ", " ", "b">>,
       <<"c">>, <<"d">>, <<"e">>, <<"f">>, <<"g">> >>

\* embed_text + cosine_similarity against the query: the embedder is a
\* deterministic black box, so a title's score is read from a table over the
\* title pool; which table is in force is an input.
ScoreTables ==
    { <<3, 5, 5, 3, 1, 3, 0>>, <<2, 2, 2, 2, 2, 2, 2>> }

TitleScore(title, tab) ==
    tab[CHOOSE i \in 1..Len(TitlePool) : TitlePool[i] = title]

\* os.path.basename
Basename(path) == path[Len(path)]

\* A candidate as extract_headings_and_pages builds it. The page number is
\* the candidate's position in the list: rank_sections only copies it.
Candidate(title, i) ==
    [section_title |-> title, page_number |-> i,
     pdf_path |-> <<"pdfs", "r1", IF i % 2 = 1 THEN "a.pdf" ELSE "b.pdf">>]

\* for sec in sections: ranked.append((sec, score))
Scored(sections, tab) ==
    [i \in 1..Len(sections) |->
        [sec |-> sections[i], score |-> TitleScore(sections[i].section_title, tab)]]

\* A variant of the sort that puts an element before the equal-scored ones.
RECURSIVE InsertBeforeEqual(_, _)
InsertBeforeEqual(x, sorted) ==
    IF sorted = <<>> THEN <<x>>
    ELSE IF Head(sorted).score > x.score
         THEN <<Head(sorted)>> \o InsertBeforeEqual(x, Tail(sorted))
         ELSE <<x>> \o sorted

\* One step of the stable descending sort: x goes after every element whose
\* score is at least its own.
RECURSIVE InsertDesc(_, _)
InsertDesc(x, sorted) ==
    IF sorted = <<>> THEN <<x>>
    ELSE IF Head(sorted).score >= x.score
         THEN <<Head(sorted)>> \o InsertDesc(x, Tail(sorted))
         ELSE <<x>> \o sorted

\* ranked.sort(key=lambda x: x[1], reverse=True): stable, descending
RECURSIVE SortDesc(_)
SortDesc(xs) ==
    IF xs = <<>> THEN <<>>
    ELSE InsertDesc(xs[Len(xs)], SortDesc(SubSeq(xs, 1, Len(xs) - 1)))

\* A variant of the walk that forgets the cap on the kept sections.
RECURSIVE TopWalkNoCap(_, _, _)
TopWalkNoCap(ranked, seen_titles, top_sections) ==
    IF ranked = <<>> THEN top_sections
    ELSE LET sec == Head(ranked).sec
             title_normalized == NormTitle(sec.section_title)
         IN  IF title_normalized \notin seen_titles
             THEN TopWalkNoCap(Tail(ranked), seen_titles \cup {title_normalized},
                               Append(top_sections, sec))
             ELSE TopWalkNoCap(Tail(ranked), seen_titles, top_sections)

\* The walk over the sorted candidates that keeps the first of each
\* normalized title, up to five.
RECURSIVE TopWalk(_, _, _)
TopWalk(ranked, seen_titles, top_sections) ==
    IF ranked = <<>> THEN top_sections
    ELSE LET sec == Head(ranked).sec
             title_normalized == NormTitle(sec.section_title)
         IN  IF title_normalized \notin seen_titles /\ Len(top_sections) < TopN
             THEN TopWalk(Tail(ranked), seen_titles \cup {title_normalized},
                          Append(top_sections, sec))
             ELSE TopWalk(Tail(ranked), seen_titles, top_sections)

RankSections(sections, tab) ==
    LET top_sections == TopWalk(SortDesc(Scored(sections, tab)), {}, <<>>)
    IN  [i \in 1..Len(top_sections) |->
            [document |-> Basename(top_sections[i].pdf_path),
             section_title |-> top_sections[i].section_title,
             importance_rank |-> i,
             page_number |-> top_sections[i].page_number]]

\* Occurrences of a title among the candidates.
Occurs(sections, title) ==
    Cardinality({i \in 1..Len(sections) : sections[i].section_title = title})

\* The candidate lists explored hold every title of the pool at most once.
MayAdd(sections, title) == Occurs(sections, title) = 0

RankInit ==
    /\ MainIdle
    /\ HeadIdle
    /\ SubIdle
    /\ rSections = <<>>
    /\ rTab \in ScoreTables
    /\ rOut = <<>>
    /\ rPc = "input"

\* The caller's all_sections.extend(headings), one candidate at a time.
AddSection(title) ==
    /\ rPc = "input"
    /\ Len(rSections) < MaxCands
    /\ MayAdd(rSections, title)
    /\ rSections' = Append(rSections, Candidate(title, Len(rSections) + 1))
    /\ UNCHANGED <<rTab, rOut, rPc>>
    /\ UNCHANGED <<headVars, subVars, mainVars>>

RankCall ==
    /\ rPc = "input"
    /\ rOut' = RankSections(rSections, rTab)
    /\ rPc' = "done"
    /\ UNCHANGED <<rSections, rTab>>
    /\ UNCHANGED <<headVars, subVars, mainVars>>

RankNext ==
    \/ \E title \in Range(TitlePool) : AddSection(title)
    \/ RankCall

SpecRank == RankInit /\ [][RankNext]_vars


DistinctNormTitles(sections) ==
    {NormTitle(sections[i].section_title) : i \in 1..Len(sections)}

MinOf(a, b) == IF a <= b THEN a ELSE b

\* The score the embedder gave the i-th returned section.
OutScore(i) == TitleScore(rOut[i].section_title, rTab)

\* C2: the returned sections are in non-increasing order of score; of two
\* returned sections with equal scores the one earlier in the input has the
\* smaller importance_rank; and each returned section is, among the input
\* candidates with its normalized title, the highest-scoring one, the
\* earliest in the input among equal scores.
C2_RankedByScoreStable ==
    rPc = "done" =>
        /\ \A i \in 1..Len(rOut) :
              /\ rOut[i].page_number \in 1..Len(rSections)
              /\ rOut[i].section_title = rSections[rOut[i].page_number].section_title
        /\ \A i, j \in 1..Len(rOut) :
              i < j =>
                 /\ OutScore(i) >= OutScore(j)
                 /\ OutScore(i) = OutScore(j) =>
                       /\ rOut[i].page_number < rOut[j].page_number
                       /\ rOut[i].importance_rank < rOut[j].importance_rank
        /\ \A i \in 1..Len(rOut) : \A k \in 1..Len(rSections) :
              NormTitle(rSections[k].section_title) = NormTitle(rOut[i].section_title) =>
                 LET sk == TitleScore(rSections[k].section_title, rTab)
                 IN  /\ sk <= OutScore(i)
                     /\ sk = OutScore(i) => rOut[i].page_number <= k

\* C2 witness: a ranking that returned two sections with equal scores and
\* kept, for some normalized title, the later and higher-scoring spelling.
C2_Witness ==
    /\ rPc = "done"
    /\ \E i, j \in 1..Len(rOut) : i < j /\ OutScore(i) = OutScore(j)
    /\ \E i \in 1..Len(rOut) : \E k \in 1..Len(rSections) :
          /\ k < rOut[i].page_number
          /\ NormTitle(rSections[k].section_title) = NormTitle(rOut[i].section_title)
          /\ TitleScore(rSections[k].section_title, rTab) < OutScore(i)

\* C3: rank_sections returns exactly min(5, d) sections, d the number of
\* distinct normalized titles among the candidates; no two returned sections
\* share a normalized title; the i-th returned section has importance_rank i.
C3_TopDistinctDense ==
    rPc = "done" =>
        /\ Len(rOut) = MinOf(TopN, Cardinality(DistinctNormTitles(rSections)))
        /\ \A i, j \in 1..Len(rOut) :
              i # j => NormTitle(rOut[i].section_title) # NormTitle(rOut[j].section_title)
        /\ \A i \in 1..Len(rOut) : rOut[i].importance_rank = i

\* C3 witness: candidates with more than five distinct normalized titles,
\* ranked down to five.
C3_Witness ==
    /\ rPc = "done"
    /\ Cardinality(DistinctNormTitles(rSections)) > TopN
    /\ Len(rOut) = TopN

----------------------------------------------------------------------------
(* extract_headings_and_pages *)

FallbackLines == 10

FallbackMinLen == 10

BodyLineLen == 100

MaxWords == 20

MaxPeriods == 3

MaxCommas == 5

\* The lines of a page's blocks, in order; an image block has no "lines".
RECURSIVE BlockLines(_)
BlockLines(blocks) ==
    IF blocks = <<>> THEN <<>>
    ELSE (IF "lines" \in DOMAIN Head(blocks) THEN Head(blocks).lines ELSE <<>>)
         \o BlockLines(Tail(blocks))

RECURSIVE SumSeq(_)
SumSeq(xs) == IF xs = <<>> THEN 0 ELSE Head(xs) + SumSeq(Tail(xs))

RECURSIVE Flatten(_)
Flatten(xss) == IF xss = <<>> THEN <<>> ELSE Head(xss) \o Flatten(Tail(xss))

\* [span["size"] for span in l["spans"] if span["size"] > 0]
LineFontSizes(l) ==
    SelectSeq([i \in 1..Len(l) |-> l[i].size], LAMBDA z : z > 0)

\* page_font_sizes: every positive span size of the page
PageFontSizes(page) ==
    Flatten([i \in 1..Len(BlockLines(page.blocks)) |->
                LineFontSizes(BlockLines(page.blocks)[i])])

\* The k-th smallest element of a non-empty sequence of numbers.
KthSmallest(xs, k) ==
    CHOOSE v \in Range(xs) :
        /\ Cardinality({i \in 1..Len(xs) : xs[i] < v}) < k
        /\ Cardinality({i \in 1..Len(xs) : xs[i] <= v}) >= k

\* Twice np.median(xs): the middle element doubled, or the sum of the two
\* middle elements.
Median2(xs) ==
    IF Len(xs) % 2 = 1 THEN 2 * KthSmallest(xs, (Len(xs) + 1) \div 2)
    ELSE KthSmallest(xs, Len(xs) \div 2) + KthSmallest(xs, Len(xs) \div 2 + 1)

MaxSeq(xs) == CHOOSE v \in Range(xs) : \A w \in Range(xs) : w <= v

\* " ".join([span["text"].strip() for span in l["spans"]]).strip()
LineText(l) == Strip(JoinSp([i \in 1..Len(l) |-> Strip(l[i].text)]))

\* The filters a line passes before it is classified (lines 63-78).
PassesFilters(l) ==
    LET line_text == LineText(l)
        words == Words(line_text)
    IN  /\ line_text # <<>>
        /\ ~(Len(words) < 1 \/ Len(words) > MaxWords)
        /\ ~(CountCh(line_text, ".") > MaxPeriods \/ CountCh(line_text, ",") > MaxCommas)
        /\ LineFontSizes(l) # <<>>

\* any(span["flags"] & 2 for span in l["spans"])
IsBoldFlag(l) == \E i \in 1..Len(l) : (l[i].flags \div 2) % 2 = 1

\* is_heading (lines 80-90), for a line that passed the filters, with
\* avg_font_size = total / n, median_font = Median2 / 2:
\*   avg_font_size > median_font * 1.1   <=>  20 * total > 11 * Median2 * n
\*   avg_font_size >= max_font * 0.9     <=>  10 * total >= 9 * max_font * n
\* (the double products median*1.1 and max*0.9 round to the exact product
\* whenever that product is itself a double, so the boundary cases compare as
\* the exact ones do).
IsHeading(l, sizes) ==
    LET font_sizes == LineFontSizes(l)
        n == Len(font_sizes)
        total == SumSeq(font_sizes)
    IN  \/ 20 * total > 11 * Median2(sizes) * n
        \/ IsBoldFlag(l)
        \/ IsUpper(LineText(l))
        \/ 10 * total >= 9 * MaxSeq(sizes) * n

\* The indices of the page's lines that the heading pass appends (lines 58-97).
HeadingLines(page) ==
    LET ls == BlockLines(page.blocks)
        sizes == PageFontSizes(page)
    IN  SelectSeq([i \in 1..Len(ls) |-> i],
                  LAMBDA i : PassesFilters(ls[i]) /\ IsHeading(ls[i], sizes))

\* A variant of the fallback test that leaves out the word count.
FallbackOkAnyWords(line) ==
    /\ Len(line) > FallbackMinLen
    /\ ~(EndsWith(line, ".") /\ Len(line) > BodyLineLen)

\* The test of lines 104-106 on a stripped plain-text line.
FallbackOk(line) ==
    /\ Len(line) > FallbackMinLen
    /\ Len(Words(line)) >= 2
    /\ ~(EndsWith(line, ".") /\ Len(line) > BodyLineLen)

\* The fallback loop (lines 101-112): the first of the first ten lines that
\* passes the test, as a list of at most one title.
RECURSIVE FirstFallback(_)
FirstFallback(lines) ==
    IF lines = <<>> THEN <<>>
    ELSE LET line == Strip(Head(lines))
         IN  IF FallbackOk(line) THEN <<line>> ELSE FirstFallback(Tail(lines))

FallbackTitles(page_text) ==
    LET lines == SplitChar(page_text, "\n")
    IN  FirstFallback(SubSeq(lines, 1, MinOf(FallbackLines, Len(lines))))

Section(title, page_number) ==
    [section_title |-> title, page_number |-> page_number,
     pdf_path |-> <<"pdfs", "r1", "a.pdf">>]

\* A variant of the deduplication key that leaves the page number out.
SectionKeyTitleOnly(sec) == <<NormTitle(sec.section_title), 0>>

\* key = (normalized_title, sec["page_number"])
SectionKey(sec) == <<NormTitle(sec.section_title), sec.page_number>>

\* Lines 114-125: keep the first section of every key, in order.
RECURSIVE UniqueSections(_, _)
UniqueSections(sections, seen) ==
    IF sections = <<>> THEN <<>>
    ELSE LET key == SectionKey(Head(sections))
         IN  IF key \notin seen
             THEN <<Head(sections)>> \o UniqueSections(Tail(sections), seen \cup {key})
             ELSE UniqueSections(Tail(sections), seen)

\* One iteration of the page loop (lines 34-112).
HeadPage ==
    /\ hPc = "pages"
    /\ hPage < Len(hDoc)
    /\ LET page == hDoc[hPage + 1]
           page_text == Strip(page.text)
           ls == BlockLines(page.blocks)
       IN  IF PageFontSizes(page) = <<>>
           THEN \* if not page_font_sizes: continue
                /\ hSections' = hSections
                /\ hHeadings' = Append(hHeadings, <<>>)
                /\ hFallback' = Append(hFallback, <<>>)
           ELSE LET heads == HeadingLines(page)
                    found == [k \in 1..Len(heads) |->
                                 Section(LineText(ls[heads[k]]), hPage + 1)]
                    fb == IF hPage = 0 \/ Len(found) = 0
                          THEN FallbackTitles(page_text) ELSE <<>>
                IN  /\ hSections' = hSections \o found
                                     \o [k \in 1..Len(fb) |-> Section(fb[k], hPage + 1)]
                    /\ hHeadings' = Append(hHeadings, heads)
                    /\ hFallback' = Append(hFallback, fb)
    /\ hPage' = hPage + 1
    /\ hPc' = IF hPage + 1 = Len(hDoc) THEN "dedup" ELSE "pages"
    /\ UNCHANGED <<hDoc, hUnique>>
    /\ UNCHANGED <<rankVars, subVars, mainVars>>

\* Lines 114-125 and the return.
HeadDedup ==
    /\ hPc = "dedup"
    /\ hUnique' = UniqueSections(hSections, {})
    /\ hPc' = "done"
    /\ UNCHANGED <<hDoc, hPage, hSections, hHeadings, hFallback>>
    /\ UNCHANGED <<rankVars, subVars, mainVars>>

HeadNext == HeadPage \/ HeadDedup

----------------------------------------------------------------------------
(* Documents given to extract_headings_and_pages *)

MaxPages == 2

MaxLines == 4

L_title == <<"A", "b", "c", " ", "d", "e", "f", " ", "g", "h", "a", "b">>

L_upper == <<"A", "B", "C", " ", "A", "B", "C", " ", "H", "A", "B", "C">>

\* Another spelling of L_upper's normalized title.
L_lowvar == <<"A", "b", "c", " ", "a", "b", "c", " ", " ", "h", "a", "b", "c">>

L_short == <<"A", "b", " ", "c", "d">>

\* Four periods: dropped by the punctuation filter.
L_dots == <<"a", ".", " ", "b", ".", " ", "c", ".", " ", "d", ".", " ", "e">>

\* 102 characters ending with a period.
L_body == Rep("a", 60) \o <<" ">> \o Rep("b", 40) \o <<".">>

L_oneword == Rep("a", 12)

NL == <<"\n">>

Span(text, size, flags) == [text |-> text, size |-> size, flags |-> flags]

Line1(text, size, flags) == <<Span(text, size, flags)>>

TextBlock(lines) == [lines |-> lines]

ImageBlock == [image |-> TRUE]

\* A large upper-case heading between two body lines, the first of which is
\* another spelling of the heading.
PgTitle ==
    [blocks |-> <<TextBlock(<<Line1(L_lowvar, 10, 0), Line1(L_upper, 20, 0),
                              Line1(L_title, 10, 0)>>)>>,
     text |-> L_lowvar \o NL \o L_upper \o NL \o L_title \o NL]

\* No line is classified as a heading.
PgPlain ==
    [blocks |-> <<TextBlock(<<Line1(L_dots, 20, 0)>>),
                  TextBlock(<<Line1(L_short, 10, 0), Line1(L_title, 10, 0)>>)>>,
     text |-> L_short \o NL \o L_title \o NL \o L_dots \o NL]

\* No span of the page has a positive size.
PgNoFont ==
    [blocks |-> <<ImageBlock, TextBlock(<<Line1(L_title, 0, 0)>>)>>,
     text |-> L_title \o NL]

\* Plain text that starts with white space and a long body sentence.
PgBody ==
    [blocks |-> <<TextBlock(<<Line1(L_dots, 20, 0), Line1(L_body, 10, 0),
                              Line1(L_title, 10, 0)>>)>>,
     text |-> <<" ", " ", "\n">> \o L_body \o NL \o <<" ">> \o L_title \o <<" ">> \o NL]

\* The only line the fallback would take is the eleventh.
PgLate ==
    [blocks |-> <<TextBlock(<<Line1(L_dots, 20, 0), Line1(L_short, 10, 0)>>)>>,
     text |-> Flatten([i \in 1..10 |-> L_short \o NL]) \o L_title \o NL]

\* A heading by font size that is also the first plain-text line.
PgHead ==
    [blocks |-> <<TextBlock(<<Line1(L_title, 20, 0), Line1(L_short, 10, 0),
                              Line1(L_short, 10, 0)>>)>>,
     text |-> L_title \o NL \o L_short \o NL \o L_short \o NL]

\* The same upper-case heading twice on the page.
PgTwice ==
    [blocks |-> <<TextBlock(<<Line1(L_upper, 20, 0)>>),
                  TextBlock(<<Line1(L_upper, 10, 0), Line1(L_short, 10, 0)>>)>>,
     text |-> L_oneword \o NL \o L_upper \o NL \o L_short \o NL]

PagePool == {PgTitle, PgPlain, PgNoFont, PgBody, PgLate, PgHead, PgTwice}

HeadStart ==
    /\ hPage = 0 /\ hSections = <<>> /\ hHeadings = <<>> /\ hFallback = <<>>
    /\ hUnique = <<>> /\ hPc = "pages"

HeadInit ==
    /\ MainIdle
    /\ RankIdle
    /\ SubIdle
    /\ \E n \in 1..MaxPages : hDoc \in [1..n -> PagePool]
    /\ HeadStart

SpecHead == HeadInit /\ [][HeadNext]_vars

\* Span sizes and flags of the generated pages: flags 2 and 16 are the
\* parser's italic and bold bits.
FontSizes == {0, 9, 10, 11, 20}

LineStyles == {"plain", "italic", "bold", "upper"}

StyleFlags(style) ==
    CASE style = "italic" -> 2 [] style = "bold" -> 16 [] OTHER -> 0

StyleText(style) == IF style = "upper" THEN L_upper ELSE L_title

\* A one-page document of n one-span lines with the given sizes; the first
\* line carries the style and, when extra >= 0, a second span of that size.
FontPage(n, size, style, extra) ==
    LET first == <<Span(StyleText(style), size[1], StyleFlags(style))>>
                 \o (IF extra >= 0 THEN <<Span(<<"a", "b">>, extra, 0)>> ELSE <<>>)
        ls == [i \in 1..n |-> IF i = 1 THEN first ELSE Line1(L_title, size[i], 0)]
    IN  [blocks |-> <<TextBlock(ls)>>,
         text |-> Flatten([i \in 1..n |-> LineText(ls[i]) \o NL])]

FontInit ==
    /\ MainIdle
    /\ RankIdle
    /\ SubIdle
    /\ \E n \in 1..MaxLines : \E size \in [1..n -> FontSizes] :
       \E style \in LineStyles : \E extra \in {-1, 0, 11} :
          hDoc = <<FontPage(n, size, style, extra)>>
    /\ HeadStart

SpecFont == FontInit /\ [][HeadNext]_vars

----------------------------------------------------------------------------
(* Properties of extract_headings_and_pages *)

\* The (normalized title, page number) key of the i-th raw candidate.
RawKey(i) ==
    <<CollapseWs(Strip(Lower(hSections[i].section_title))), hSections[i].page_number>>

\* The raw candidates that are the first of their key.
FirstOfKey == {i \in 1..Len(hSections) : \A j \in 1..(i - 1) : RawKey(j) # RawKey(i)}

\* C4: the returned list holds exactly the first raw candidate of every
\* (normalized title, page number) key, in the raw candidates' order, so no
\* two returned candidates share a key.
C4_FirstOfEachKeyInOrder ==
    hPc = "done" =>
        /\ Len(hUnique) = Cardinality(FirstOfKey)
        /\ \A k \in 1..Len(hUnique) :
              \E i \in FirstOfKey :
                 /\ Cardinality({j \in FirstOfKey : j < i}) = k - 1
                 /\ hUnique[k] = hSections[i]
        /\ \A k, m \in 1..Len(hUnique) :
              k # m =>
                 <<CollapseWs(Strip(Lower(hUnique[k].section_title))), hUnique[k].page_number>>
                 # <<CollapseWs(Strip(Lower(hUnique[m].section_title))), hUnique[m].page_number>>

\* C4 witness: the raw candidates held two spellings of one key, of which the
\* second was dropped, and one normalized title on two pages, both kept.
C4_Witness ==
    /\ hPc = "done"
    /\ \E i, j \in 1..Len(hSections) :
          /\ i < j /\ RawKey(i) = RawKey(j)
          /\ hSections[i].section_title # hSections[j].section_title
    /\ \E k, m \in 1..Len(hUnique) :
          /\ k < m
          /\ NormTitle(hUnique[k].section_title) = NormTitle(hUnique[m].section_title)
          /\ hUnique[k].page_number # hUnique[m].page_number

\* The first ten plain-text lines of page p, each stripped.
PlainLines(p) ==
    LET ls == SplitChar(Strip(hDoc[p].text), "\n")
    IN  [i \in 1..(IF Len(ls) < 10 THEN Len(ls) ELSE 10) |-> Strip(ls[i])]

\* Longer than 10 characters, at least 2 words, not both ending with a period
\* and longer than 100 characters.
Qualifies(line) ==
    /\ Len(line) > 10
    /\ Len(Words(line)) >= 2
    /\ ~(line[Len(line)] = "." /\ Len(line) > 100)

HasQualifying(p) == \E i \in 1..Len(PlainLines(p)) : Qualifies(PlainLines(p)[i])

FirstQualifying(p) ==
    PlainLines(p)[CHOOSE i \in 1..Len(PlainLines(p)) :
                      /\ Qualifies(PlainLines(p)[i])
                      /\ \A j \in 1..(i - 1) : ~Qualifies(PlainLines(p)[j])]

\* Page p is the first page, or its heading classification took no line.
FallbackDue(p) == p = 1 \/ hHeadings[p] = <<>>

\* Some span of page p has a positive font size.
HasPositiveFont(p) ==
    \E b \in 1..Len(hDoc[p].blocks) :
       /\ "lines" \in DOMAIN hDoc[p].blocks[b]
       /\ \E l \in 1..Len(hDoc[p].blocks[b].lines) :
             \E s \in 1..Len(hDoc[p].blocks[b].lines[l]) :
                hDoc[p].blocks[b].lines[l][s].size > 0

\* C10 as stated: on every page that is the first page or has no classified
\* heading, pages without a positive font size included, a qualifying line
\* among the first ten makes the fallback add exactly the first such line,
\* and the returned list holds a candidate of that page with that title; on
\* any other page the fallback adds nothing.
C10_Original ==
    hPc = "done" =>
        \A p \in 1..Len(hDoc) :
           IF FallbackDue(p) /\ HasQualifying(p)
           THEN /\ hFallback[p] = <<FirstQualifying(p)>>
                /\ \E k \in 1..Len(hUnique) :
                      /\ hUnique[k].page_number = p
                      /\ hUnique[k].section_title = FirstQualifying(p)
           ELSE hFallback[p] = <<>>

\* C10 amended: the same for the pages that have a span of positive font
\* size, the returned candidate being one of that page whose normalized
\* title is that of the first qualifying line; on a page without a positive
\* font size, and on any other page, the fallback adds nothing.
C10_FallbackOnPagesWithFonts ==
    hPc = "done" =>
        \A p \in 1..Len(hDoc) :
           IF HasPositiveFont(p) /\ FallbackDue(p) /\ HasQualifying(p)
           THEN /\ hFallback[p] = <<FirstQualifying(p)>>
                /\ \E k \in 1..Len(hUnique) :
                      /\ hUnique[k].page_number = p
                      /\ NormTitle(hUnique[k].section_title)
                            = NormTitle(FirstQualifying(p))
           ELSE hFallback[p] = <<>>

\* C10 witness: a later page without a classified heading got its second
\* plain-text line from the fallback, and the first page's fallback line was
\* merged into a heading of the same normalized title.
C10_Witness ==
    /\ hPc = "done"
    /\ \E p \in 2..Len(hDoc) :
          /\ HasPositiveFont(p) /\ hHeadings[p] = <<>>
          /\ hFallback[p] # <<>>
          /\ hFallback[p][1] # PlainLines(p)[1]
    /\ hFallback[1] # <<>>
    /\ \A k \in 1..Len(hUnique) : hUnique[k].section_title # hFallback[1][1]

\* The lines of the first page.
Lines1 == BlockLines(hDoc[1].blocks)

LineTotal(i) == SumSeq(LineFontSizes(Lines1[i]))

LineCount(i) == Len(LineFontSizes(Lines1[i]))

\* Some span of line i has the bold bit (16) of its flags set.
IsBoldFont(i) == \E s \in 1..Len(Lines1[i]) : (Lines1[i][s].flags \div 16) % 2 = 1

ClassifiedHeading(i) == \E k \in 1..Len(hHeadings[1]) : hHeadings[1][k] = i

\* C7: a line that passes the filters, is neither bold nor upper-case, and has
\* an average font size of exactly 1.1 times the page median and below 0.9
\* times the page maximum is not classified as a heading; a line whose
\* average font size is exactly 0.9 times the page maximum is.
C7_Boundaries ==
    hPage >= 1 =>
        \A i \in 1..Len(Lines1) :
           PassesFilters(Lines1[i]) =>
              LET sizes == PageFontSizes(hDoc[1])
              IN  /\ ( /\ ~IsBoldFont(i)
                       /\ ~IsUpper(LineText(Lines1[i]))
                       /\ 20 * LineTotal(i) = 11 * Median2(sizes) * LineCount(i)
                       /\ 10 * LineTotal(i) < 9 * MaxSeq(sizes) * LineCount(i) )
                     => ~ClassifiedHeading(i)
                  /\ 10 * LineTotal(i) = 9 * MaxSeq(sizes) * LineCount(i)
                     => ClassifiedHeading(i)

----------------------------------------------------------------------------
(* extract_subsections *)

MinSegmentLen == 20

MinLineLen == 5

MaxBufferLen == 150

MinParagraphLen == 30

MaxRefinedLen == 500

MinRefinedLen == 15

MinDedupLen == 20

\* [strip(section) for section in page_text.split('\n\n') if len > limit]
SegmentsLongerThan(page_text, limit) ==
    LET segs == SplitBlank(page_text)
    IN  SelectSeq([i \in 1..Len(segs) |-> Strip(segs[i])], LAMBDA x : Len(x) > limit)

\* The line-by-line accumulation (lines 215-234): `current` is
\* current_paragraph, `out` the paragraphs appended so far.
RECURSIVE LineWalk(_, _, _)
LineWalk(lines, current, out) ==
    IF lines = <<>>
    THEN IF current # <<>> /\ Len(Strip(JoinSp(current))) > MinParagraphLen
         THEN Append(out, Strip(JoinSp(current))) ELSE out
    ELSE LET line == Head(lines)
         IN  IF Len(line) > MinLineLen
             THEN LET cur == Append(current, line)
                  IN  IF \/ EndsWith(line, ".") \/ EndsWith(line, "!")
                         \/ EndsWith(line, "?")
                         \/ Len(JoinSp(cur)) > MaxBufferLen
                      THEN LineWalk(Tail(lines), <<>>,
                                    IF Len(Strip(JoinSp(cur))) > MinParagraphLen
                                    THEN Append(out, Strip(JoinSp(cur))) ELSE out)
                      ELSE LineWalk(Tail(lines), cur, out)
             ELSE LineWalk(Tail(lines), current, out)

\* lines = [line.strip() for line in page_text.split('\n') if line.strip()]
NonEmptyLines(page_text) ==
    LET ls == SplitChar(page_text, "\n")
    IN  SelectSeq([i \in 1..Len(ls) |-> Strip(ls[i])], LAMBDA x : x # <<>>)

\* A variant of the segmentation with a minimum segment length of 30.
ParagraphsMin30(page_text) ==
    LET paragraphs == SegmentsLongerThan(page_text, 30)
    IN  IF Len(paragraphs) < 2
        THEN LineWalk(NonEmptyLines(page_text), <<>>, paragraphs)
        ELSE paragraphs

\* The paragraph segmentation (lines 203-234): the line-by-line accumulation
\* appends to the paragraphs the blank-line split kept.
Paragraphs(page_text) ==
    LET paragraphs == SegmentsLongerThan(page_text, MinSegmentLen)
    IN  IF Len(paragraphs) < 2
        THEN LineWalk(NonEmptyLines(page_text), <<>>, paragraphs)
        ELSE paragraphs

\* A variant of the accumulation that admits a running length of exactly 500.
RECURSIVE TakeSentencesUpTo(_, _, _)
TakeSentencesUpTo(sentences, refined_sentences, total_length) ==
    IF sentences = <<>> THEN refined_sentences
    ELSE LET sentence == Strip(Head(sentences))
         IN  IF sentence # <<>> /\ total_length + Len(sentence) <= MaxRefinedLen
             THEN TakeSentencesUpTo(Tail(sentences), Append(refined_sentences, sentence),
                                    total_length + Len(sentence))
             ELSE refined_sentences

\* The greedy accumulation of sentences (lines 248-256).
RECURSIVE TakeSentences(_, _, _)
TakeSentences(sentences, refined_sentences, total_length) ==
    IF sentences = <<>> THEN refined_sentences
    ELSE LET sentence == Strip(Head(sentences))
         IN  IF sentence # <<>> /\ total_length + Len(sentence) < MaxRefinedLen
             THEN TakeSentences(Tail(sentences), Append(refined_sentences, sentence),
                                total_length + Len(sentence))
             ELSE refined_sentences

\* Lines 238-261 for one paragraph: the refined text to embed, as a list of
\* at most one text.
Refine(paragraph) ==
    IF Len(Strip(paragraph)) < MinParagraphLen THEN <<>>
    ELSE LET cleaned_text == Strip(CollapseWs(paragraph))
             refined_sentences == TakeSentences(SplitSentences(cleaned_text), <<>>, 0)
             refined_text == Strip(JoinSp(refined_sentences))
         IN  IF refined_sentences # <<>> /\ Len(refined_text) > MinRefinedLen
             THEN <<refined_text>> ELSE <<>>

\* The embedder is an external model: "#" marks a text on which it raises.
EmbedRaises(text) == \E i \in 1..Len(text) : text[i] = "#"

\* embed_text + cosine_similarity against the query: a deterministic score
\* of the text, one of two scorings chosen by the seed.
EmbedScore(text, seed) ==
    IF seed = 0 THEN Len(text) % 3 ELSE (CountCh(text, "a") + CountCh(text, " ")) % 2

\* The paragraph loop (lines 237-271): the passages appended, and whether an
\* exception ended the loop.
RECURSIVE ScoreParagraphs(_, _, _, _, _)
ScoreParagraphs(paragraphs, document, page_number, seed, acc) ==
    IF paragraphs = <<>> THEN [status |-> "ok", added |-> acc]
    ELSE LET r == Refine(Head(paragraphs))
         IN  IF r = <<>>
             THEN ScoreParagraphs(Tail(paragraphs), document, page_number, seed, acc)
             ELSE IF EmbedRaises(r[1])
             THEN [status |-> "error", added |-> acc]
             ELSE ScoreParagraphs(Tail(paragraphs), document, page_number, seed,
                      Append(acc, [document |-> document,
                                   page_number |-> page_number,
                                   refined_text |-> r[1],
                                   similarity_score |-> EmbedScore(r[1], seed)]))

\* normalized_text (lines 286-287)
NormText(text) == Strip(CollapseWs(StripPunct(Lower(text))))

TokenSet(text) == Range(Words(text))

\* A variant of the test that only looks for the candidate inside the kept text.
IsNearDuplicateOneWay(normalized_text, seen_text) ==
    /\ Len(normalized_text) > MinDedupLen
    /\ \/ Contains(normalized_text, seen_text)
       \/ 10 * Cardinality(TokenSet(normalized_text) \cap TokenSet(seen_text))
             > 7 * Len(Words(normalized_text))

\* The test of lines 292-294 against one kept text; the code's
\* overlap > len(tokens) * 0.7 is 10 * overlap > 7 * len(tokens) for the token
\* counts of the model.
IsNearDuplicate(normalized_text, seen_text) ==
    /\ Len(normalized_text) > MinDedupLen
    /\ \/ Contains(normalized_text, seen_text)
       \/ Contains(seen_text, normalized_text)
       \/ 10 * Cardinality(TokenSet(normalized_text) \cap TokenSet(seen_text))
             > 7 * Len(Words(normalized_text))

\* The walk of lines 284-302 over the sorted passages.
RECURSIVE DedupWalk(_, _, _)
DedupWalk(paras, seen_texts, final_subsections) ==
    IF paras = <<>> THEN final_subsections
    ELSE LET para == Head(paras)
             normalized_text == NormText(para.refined_text)
             is_duplicate ==
                 \E seen_text \in seen_texts : IsNearDuplicate(normalized_text, seen_text)
         IN  IF ~is_duplicate /\ Len(final_subsections) < TopN
             THEN DedupWalk(Tail(paras), seen_texts \cup {normalized_text},
                            Append(final_subsections,
                                   [document |-> para.document,
                                    page_number |-> para.page_number,
                                    refined_text |-> para.refined_text]))
             ELSE DedupWalk(Tail(paras), seen_texts, final_subsections)

\* all_paragraphs.sort(key=similarity_score, reverse=True)
SortParagraphs(all_paragraphs) ==
    LET keyed == [i \in 1..Len(all_paragraphs) |->
                     [sec |-> all_paragraphs[i],
                      score |-> all_paragraphs[i].similarity_score]]
        sorted == SortDesc(keyed)
    IN  [i \in 1..Len(sorted) |-> sorted[i].sec]

\* Lines 277-304.
FinalSubsections(all_paragraphs) == DedupWalk(SortParagraphs(all_paragraphs), {}, <<>>)

\* The sort, the walk and the return.
FinalWalk ==
    /\ sPc \in {"sort", "pool"}
    /\ sFinal' = FinalSubsections(sAll)
    /\ sPc' = "done"
    /\ UNCHANGED <<sRanked, sSeed, sIdx, sAll, sLog, sAdded>>
    /\ UNCHANGED <<headVars, rankVars, mainVars>>

----------------------------------------------------------------------------
(* The documents under PDFS_DIR *)

P15 == <<"a", "b", "c", " ", "d", "e", "f", " ", "g", "h", " ", "a", "b", " ", "c">>

P15dot == <<"a", "b", "c", " ", "d", "e", "f", " ", "g", "h", " ", "a", "b", "c", ".">>

P25 == <<"d", "d", "d", " ", "e", "e", "e", " ", "f", "f", "f", " ", "g", "g", "g",
         " ", "h", "h", "h", " ", "d", "d", "d", " ", "e">>

P80 == Rep("b", 39) \o <<" ">> \o Rep("c", 39) \o <<".">>

Q40 == Rep("f", 19) \o <<" ">> \o Rep("g", 19) \o <<".">>

Q40b == Rep("h", 19) \o <<" ">> \o Rep("d", 19) \o <<".">>

Q40raise == Rep("e", 19) \o <<" ", "#">> \o Rep("e", 18) \o <<".">>

BLANK == <<"\n", "\n">>

\* Two blank-line-separated paragraphs of 15 and 80 characters.
T_twoA == P15 \o BLANK \o P80 \o NL

T_twoB == P15dot \o BLANK \o P80 \o NL

\* Two blank-line-separated paragraphs of 25 and 80 characters.
T_25 == P25 \o BLANK \o P80 \o NL

\* Paragraphs of two sentences of 250 + 249 and 250 + 250 characters, and one
\* whose first sentence has 500.
T_long ==
    Rep("a", 249) \o <<".", " ">> \o Rep("b", 248) \o <<".">> \o BLANK
    \o Rep("c", 249) \o <<".", " ">> \o Rep("d", 249) \o <<".">> \o BLANK
    \o Rep("e", 499) \o <<".">> \o NL

\* Three paragraphs; the embedder raises on the second.
T_multi == Q40 \o BLANK \o Q40raise \o BLANK \o Q40b \o NL

OkPage(text) == [readable |-> TRUE, text |-> text]

\* A page whose get_text raises.
BadPage == [readable |-> FALSE, text |-> <<>>]

\* os.walk(PDFS_DIR): the folders in walk order with their files.
FsDirs ==
    << [root |-> <<"pdfs", "r1">>, files |-> <<"a.pdf", "b.pdf", "bad.pdf">>],
       [root |-> <<"pdfs", "r2">>, files |-> <<"a.pdf", "c.pdf">>],
       [root |-> <<"pdfs", "r4">>, files |-> <<>>],
       [root |-> <<"pdfs", "r5">>, files |-> <<"e.pdf">>],
       [root |-> <<"pdfs", "r6">>, files |-> <<"bad2.pdf">>],
       [root |-> <<"pdfs", "r8">>, files |-> <<"e.pdf">>] >>

\* fitz.open(pdf_path)
FsDoc(path) ==
    CASE path = <<"pdfs", "r1", "a.pdf">> ->
            [openable |-> TRUE, pages |-> <<OkPage(T_twoA), OkPage(T_long)>>]
      [] path = <<"pdfs", "r1", "b.pdf">> ->
            [openable |-> TRUE, pages |-> <<OkPage(T_multi), OkPage(T_25)>>]
      [] path = <<"pdfs", "r2", "c.pdf">> ->
            [openable |-> TRUE,
             pages |-> <<BadPage, OkPage(T_twoB)>>]
      [] path = <<"pdfs", "r2", "a.pdf">> ->
            [openable |-> TRUE, pages |-> <<OkPage(T_25)>>]
      [] path \in {<<"pdfs", "r5", "e.pdf">>, <<"pdfs", "r8", "e.pdf">>} ->
            [openable |-> TRUE, pages |-> <<OkPage(T_25)>>]
      [] OTHER -> [openable |-> FALSE, pages |-> <<>>]

\* Lines 177-181: the first folder of the walk that holds the document.
LocatePdf(document) ==
    IF \A d \in 1..Len(FsDirs) : document \notin Range(FsDirs[d].files) THEN <<>>
    ELSE LET d == CHOOSE i \in 1..Len(FsDirs) :
                      /\ document \in Range(FsDirs[i].files)
                      /\ \A j \in 1..(i - 1) : document \notin Range(FsDirs[j].files)
         IN  FsDirs[d].root \o <<document>>

\* One iteration of the section loop (lines 175-275): how it ended and the
\* passages it appended to all_paragraphs.
SectionOutcome(sec, seed) ==
    LET pdf_path == LocatePdf(sec.document)
    IN  IF pdf_path = <<>> THEN [status |-> "notfound", added |-> <<>>]
        ELSE LET doc == FsDoc(pdf_path)
                 page_num == sec.page_number - 1
             IN  IF ~doc.openable THEN [status |-> "error", added |-> <<>>]
                 ELSE IF page_num < 0 \/ page_num >= Len(doc.pages)
                 THEN [status |-> "range", added |-> <<>>]
                 ELSE IF ~doc.pages[page_num + 1].readable
                 THEN [status |-> "error", added |-> <<>>]
                 ELSE ScoreParagraphs(Paragraphs(doc.pages[page_num + 1].text),
                                      Basename(pdf_path), page_num + 1, seed, <<>>)

\* A variant of the loop control that leaves the loop when a section fails.
AfterSectionBreak(status, done, total) ==
    IF done = total \/ status # "ok" THEN "sort" ELSE "sections"

\* Every way an iteration ends (continue, the except clause's continue, the
\* end of the body) goes on to the next section.
AfterSection(status, done, total) ==
    IF done = total THEN "sort" ELSE "sections"

ProcessSection ==
    /\ sPc = "sections"
    /\ sIdx < Len(sRanked)
    /\ LET out == SectionOutcome(sRanked[sIdx + 1], sSeed)
       IN  /\ sAll' = sAll \o out.added
           /\ sLog' = Append(sLog, out.status)
           /\ sAdded' = Append(sAdded, out.added)
           /\ sPc' = AfterSection(out.status, sIdx + 1, Len(sRanked))
    /\ sIdx' = sIdx + 1
    /\ UNCHANGED <<sRanked, sSeed, sFinal>>
    /\ UNCHANGED <<headVars, rankVars, mainVars>>

SubNext == ProcessSection \/ FinalWalk

MaxSecs == 2

RankedSection(document, page_number) ==
    [document |-> document, section_title |-> L_title, importance_rank |-> 0,
     page_number |-> page_number]

SectionPool ==
    { RankedSection("a.pdf", 1), RankedSection("a.pdf", 2), RankedSection("a.pdf", 3),
      RankedSection("b.pdf", 1), RankedSection("b.pdf", 2),
      RankedSection("c.pdf", 1), RankedSection("c.pdf", 2),
      RankedSection("bad.pdf", 1), RankedSection("gone.pdf", 1) }

ScoreSeeds == {0, 1}

SubInit ==
    /\ MainIdle
    /\ HeadIdle
    /\ RankIdle
    /\ \E n \in 0..MaxSecs : \E f \in [1..n -> SectionPool] :
          /\ \A i, j \in 1..n : i # j => f[i] # f[j]
          /\ sRanked = [i \in 1..n |-> [f[i] EXCEPT !.importance_rank = i]]
    /\ sSeed \in ScoreSeeds
    /\ sIdx = 0 /\ sAll = <<>> /\ sLog = <<>> /\ sAdded = <<>> /\ sFinal = <<>>
    /\ sPc = IF sRanked = <<>> THEN "sort" ELSE "sections"

SpecSub == SubInit /\ [][SubNext]_vars

----------------------------------------------------------------------------
(* Properties of the section loop of extract_subsections *)

\* The plain text of the page of the i-th ranked section (of a section whose
\* document and page exist).
PageTextOf(i) ==
    FsDoc(LocatePdf(sRanked[i].document)).pages[sRanked[i].page_number].text

\* The blank-line-separated segments of that text, stripped.
BlankSegments(i) ==
    LET segs == SplitBlank(PageTextOf(i)) IN [k \in 1..Len(segs) |-> Strip(segs[k])]

\* The segments longer than 20 characters.
LongSegments(i) == SelectSeq(BlankSegments(i), LAMBDA x : Len(x) > 20)

\* The texts embedded and scored for the i-th ranked section.
ScoredTexts(i) == [k \in 1..Len(sAdded[i]) |-> sAdded[i][k].refined_text]

\* The segments are two blank-line-separated paragraphs of 15 and 80
\* characters, in either order.
IsShortLongPage(segs) ==
    /\ Len(segs) = 2
    /\ {Len(segs[1]), Len(segs[2])} = {15, 80}

ShortSegment(segs) == IF Len(segs[1]) = 15 THEN segs[1] ELSE segs[2]

LongSegment(segs) == IF Len(segs[1]) = 80 THEN segs[1] ELSE segs[2]

Reachable(i) ==
    /\ LocatePdf(sRanked[i].document) # <<>>
    /\ FsDoc(LocatePdf(sRanked[i].document)).openable
    /\ sRanked[i].page_number \in 1..Len(FsDoc(LocatePdf(sRanked[i].document)).pages)
    /\ FsDoc(LocatePdf(sRanked[i].document)).pages[sRanked[i].page_number].readable

\* The refined texts of the paragraphs of section i's page, in order.
RefinedTexts(i) ==
    LET ps == Paragraphs(PageTextOf(i))
    IN  Flatten([k \in 1..Len(ps) |-> Refine(ps[k])])

\* The passages the sections that did not fail contributed, in order.
RECURSIVE OkPassages(_)
OkPassages(n) ==
    IF n = 0 THEN <<>>
    ELSE OkPassages(n - 1) \o (IF sLog[n] = "ok" THEN sAdded[n] ELSE <<>>)

\* C8 as stated: a section whose processing fails contributes no passage,
\* every remaining section is processed, and the returned passages are those
\* of the input without the failing sections.
C8_Original ==
    sPc = "done" =>
        /\ Len(sLog) = Len(sRanked)
        /\ \A i \in 1..Len(sLog) : sLog[i] # "ok" => sAdded[i] = <<>>
        /\ sFinal = FinalSubsections(OkPassages(Len(sLog)))

\* C8 amended: every ranked section is processed whatever happened to the
\* ones before it; a section whose document is not found or does not open,
\* whose page is out of range or whose page text cannot be read contributes
\* nothing; any other section contributes the refined texts of its page up
\* to the first one on which scoring raises; the returned passages are the
\* walk over all of these.
C8_FailuresKeepEarlierPassages ==
    sPc = "done" =>
        /\ Len(sLog) = Len(sRanked)
        /\ \A i \in 1..Len(sLog) :
              IF Reachable(i)
              THEN LET ts == RefinedTexts(i)
                       bad == {k \in 1..Len(ts) : EmbedRaises(ts[k])}
                   IN  /\ ScoredTexts(i) =
                             IF bad = {} THEN ts
                             ELSE SubSeq(ts, 1, (CHOOSE k \in bad : \A m \in bad : k <= m) - 1)
                       /\ sLog[i] = "ok" <=> bad = {}
              ELSE sAdded[i] = <<>> /\ sLog[i] # "ok"
        /\ sAll = Flatten(sAdded)
        /\ sFinal = FinalSubsections(Flatten(sAdded))

\* C8 witness: a section failed in scoring after a passage of its own was
\* appended, and a later section was processed and contributed passages.
C8_Witness ==
    /\ sPc = "done"
    /\ \E i, j \in 1..Len(sLog) :
          /\ i < j
          /\ sLog[i] = "error" /\ sAdded[i] # <<>>
          /\ sLog[j] = "ok" /\ sAdded[j] # <<>>

\* C9 as stated: every refined text that is scored, and every returned text,
\* is longer than 15 and shorter than 500 characters, joining spaces counted.
C9_Original ==
    /\ \A k \in 1..Len(sAll) :
          Len(sAll[k].refined_text) > 15 /\ Len(sAll[k].refined_text) < 500
    /\ \A k \in 1..Len(sFinal) :
          Len(sFinal[k].refined_text) > 15 /\ Len(sFinal[k].refined_text) < 500

\* The characters of a text apart from the spaces that join its sentences.
SentenceChars(t) == Len(t) - (Len(SplitSentences(t)) - 1)

\* C9 amended: every refined text that is scored, and every returned text,
\* is longer than 15 characters and has fewer than 500 characters apart from
\* the spaces that join its sentences.
C9_LengthWithoutJoins ==
    /\ \A k \in 1..Len(sAll) :
          Len(sAll[k].refined_text) > 15 /\ SentenceChars(sAll[k].refined_text) < 500
    /\ \A k \in 1..Len(sFinal) :
          Len(sFinal[k].refined_text) > 15 /\ SentenceChars(sFinal[k].refined_text) < 500

\* C9 witness: a returned text of two sentences that is 500 characters long,
\* and a scored text cut after its first sentence.
C9_Witness ==
    /\ \E k \in 1..Len(sFinal) :
          /\ Len(sFinal[k].refined_text) = 500
          /\ Len(SplitSentences(sFinal[k].refined_text)) = 2
    /\ \E k \in 1..Len(sAll) : Len(sAll[k].refined_text) = 250

----------------------------------------------------------------------------
(* The final walk of extract_subsections on its own *)

MaxPass == 3

\* A passage of 24 characters.
X_base ==
    <<"a", "b", "c", " ", "d", "e", "f", " ", "g", "h", " ", "a", "b", "c",
      " ", "d", "e", "f", " ", "g", "h", " ", "a", "b">>

\* 18 characters, 17 normalized: an initial part of X_base.
X_short ==
    <<"a", "b", "c", " ", "d", "e", "f", " ", "g", "h", " ", "a", "b", "c",
      " ", "d", "e", ".">>

\* Shares four of its five tokens with X_base; neither contains the other.
X_overlap ==
    <<"a", "b", " ", "g", "h", " ", "d", "e", "f", " ", "a", "b", "c", " ",
      "h", "h", "h", "h", "h", "h", "h", "h", "h", "h">>

\* Another spelling of X_base's normalized text.
X_spelled ==
    <<"A", "b", "c", ",", " ", "d", "e", "f", " ", "g", "h", " ", " ", "a",
      "b", "c", " ", "d", "e", "f", " ", "g", "h", " ", "a", "b", "!">>

\* Contains X_base; shares four of its eight tokens with it.
X_longer ==
    <<"a", "b", "c", " ", "d", "e", "f", " ", "g", "h", " ", "a", "b", "c",
      " ", "d", "e", "f", " ", "g", "h", " ", "a", "b", " ", "c", "c", "c">>

\* Unrelated to X_base.
X_other ==
    <<"c", "c", "c", " ", "d", "d", "d", " ", "e", "e", "e", " ", "f", "f",
      "f", " ", "g", "g", "g", " ", "h", "h", "h">>

PassageTexts == {X_base, X_short, X_overlap, X_spelled, X_longer, X_other}

PassageScores == {0, 1}

DedupInit ==
    /\ MainIdle
    /\ HeadIdle
    /\ RankIdle
    /\ sRanked = <<>> /\ sSeed = 0 /\ sIdx = 0 /\ sAll = <<>> /\ sLog = <<>>
    /\ sAdded = <<>> /\ sFinal = <<>>
    /\ sPc = "pool"

\* all_paragraphs.append(...): one scored passage, of any text and score.
AddPassage(text, score) ==
    /\ sPc = "pool"
    /\ Len(sAll) < MaxPass
    /\ sAll' = Append(sAll, [document |-> "a.pdf", page_number |-> 1,
                             refined_text |-> text, similarity_score |-> score])
    /\ UNCHANGED <<sRanked, sSeed, sIdx, sLog, sAdded, sFinal, sPc>>
    /\ UNCHANGED <<headVars, rankVars, mainVars>>

DedupNext ==
    \/ \E text \in PassageTexts : \E score \in PassageScores : AddPassage(text, score)
    \/ FinalWalk

SpecDedup == DedupInit /\ [][DedupNext]_vars

\* Punctuation stripped, lower-cased, white space collapsed.
Normalized(k) == Strip(CollapseWs(StripPunct(Lower(sFinal[k].refined_text))))

\* The share of the candidate's tokens found among the other text's tokens
\* is above 70%.
OverlapAbove70(candidate, other) ==
    10 * Cardinality(Range(Words(candidate)) \cap Range(Words(other)))
       > 7 * Len(Words(candidate))

\* C1 as stated: for any two kept passages, the later-kept being the
\* candidate, neither normalized text contains the other, and it is not the
\* case that the token overlap is above 70% with the candidate longer than
\* 20 characters, whatever the candidate's length.
C1_Original ==
    sPc = "done" =>
        \A k, m \in 1..Len(sFinal) :
           k < m =>
              /\ ~Contains(Normalized(m), Normalized(k))
              /\ ~Contains(Normalized(k), Normalized(m))
              /\ ~(OverlapAbove70(Normalized(m), Normalized(k)) /\ Len(Normalized(m)) > 20)

\* C1 amended: the same for every pair whose later-kept passage has a
\* normalized text longer than 20 characters; a candidate of 20 characters
\* or fewer is never compared.
C1_NoNearDuplicatesAmongLong ==
    sPc = "done" =>
        \A k, m \in 1..Len(sFinal) :
           (k < m /\ Len(Normalized(m)) > 20) =>
              /\ ~Contains(Normalized(m), Normalized(k))
              /\ ~Contains(Normalized(k), Normalized(m))
              /\ ~OverlapAbove70(Normalized(m), Normalized(k))

\* C1 witness: the walk kept two passages, the later one longer than 20
\* characters, and dropped a third as a near-duplicate.
C1_Witness ==
    /\ sPc = "done"
    /\ Len(sAll) = 3
    /\ Len(sFinal) = 2
    /\ Len(Normalized(2)) > 20

----------------------------------------------------------------------------
(* process_round_1b *)

MaxReqs == 2

Str(v) == [kind |-> "str", v |-> v]

Obj(fields) == [kind |-> "obj", fields |-> fields]

\* What open + json.load gives for a request file: an object, or an
\* exception (an unreadable or unparseable file), or a JSON list (on which
\* persona_data.get raises).
JsonPlain == Obj([persona |-> Str("Student"), job |-> Str("Study")])

JsonRole ==
    Obj([persona |-> Obj([role |-> Str("Analyst")]),
         job_to_be_done |-> Obj([task |-> Str("Review")])])

JsonTaskString == Obj([job_to_be_done |-> Str("Plan")])

JsonUnreadable == [kind |-> "raises"]

JsonList == [kind |-> "list"]

RequestFile(prefix, json) == [prefix |-> prefix, json |-> json]

RequestPool ==
    { RequestFile("r1", JsonPlain), RequestFile("r2", JsonRole),
      RequestFile("r3", JsonPlain), RequestFile("r4", JsonPlain),
      RequestFile("r5", JsonTaskString), RequestFile("r6", JsonPlain),
      RequestFile("r7", JsonUnreadable), RequestFile("r8", JsonList) }

\* Lines 317-319
PersonaOf(persona_data) ==
    LET persona == IF "persona" \in DOMAIN persona_data.fields
                   THEN persona_data.fields.persona ELSE Str("")
    IN  IF persona.kind = "obj" /\ "role" \in DOMAIN persona.fields
        THEN persona.fields.role ELSE persona

\* Lines 322-329
JobOf(persona_data) ==
    IF "job" \in DOMAIN persona_data.fields THEN persona_data.fields.job
    ELSE IF "job_to_be_done" \in DOMAIN persona_data.fields
         THEN LET j == persona_data.fields.job_to_be_done
              IN  IF j.kind = "obj" /\ "task" \in DOMAIN j.fields THEN j.fields.task
                  ELSE j
         ELSE Str("")

\* os.path.exists(pdf_folder)
FolderExists(prefix) == \E d \in 1..Len(FsDirs) : FsDirs[d].root = <<"pdfs", prefix>>

\* glob.glob(os.path.join(pdf_folder, "*.pdf"))
PdfFiles(prefix) ==
    LET d == CHOOSE i \in 1..Len(FsDirs) : FsDirs[i].root = <<"pdfs", prefix>>
    IN  [k \in 1..Len(FsDirs[d].files) |-> FsDirs[d].root \o <<FsDirs[d].files[k]>>]

\* What extract_headings_and_pages returns for a document of the file
\* system: it raises when the document cannot be opened.
DocHeadings(pdf_path) ==
    LET sec(title, page) ==
            [section_title |-> title, page_number |-> page, pdf_path |-> pdf_path]
    IN  CASE pdf_path = <<"pdfs", "r1", "a.pdf">> ->
                [raises |-> FALSE,
                 sections |-> <<sec(TitlePool[1], 1), sec(TitlePool[3], 2)>>]
          [] pdf_path = <<"pdfs", "r1", "b.pdf">> ->
                [raises |-> FALSE,
                 sections |-> <<sec(TitlePool[2], 1), sec(TitlePool[4], 2)>>]
          [] pdf_path = <<"pdfs", "r2", "a.pdf">> ->
                [raises |-> FALSE, sections |-> <<sec(TitlePool[5], 1)>>]
          [] pdf_path = <<"pdfs", "r2", "c.pdf">> ->
                [raises |-> FALSE,
                 sections |-> <<sec(TitlePool[3], 2), sec(TitlePool[6], 1)>>]
          [] pdf_path = <<"pdfs", "r8", "e.pdf">> ->
                [raises |-> FALSE, sections |-> <<sec(TitlePool[7], 1)>>]
          [] pdf_path = <<"pdfs", "r5", "e.pdf">> ->
                [raises |-> FALSE, sections |-> <<>>]
          [] OTHER -> [raises |-> TRUE, sections |-> <<>>]

\* The document loop (lines 347-353): a document whose extraction raises is
\* skipped.
RECURSIVE AllSections(_)
AllSections(pdf_files) ==
    IF pdf_files = <<>> THEN <<>>
    ELSE (IF DocHeadings(Head(pdf_files)).raises THEN <<>>
          ELSE DocHeadings(Head(pdf_files)).sections)
         \o AllSections(Tail(pdf_files))

\* extract_subsections as a function of its argument.
ExtractSubsections(ranked_sections, seed) ==
    FinalSubsections(Flatten([i \in 1..Len(ranked_sections) |->
                                 SectionOutcome(ranked_sections[i], seed).added]))

\* The embedder scores in force in process_round_1b.
MainTab == <<3, 5, 5, 3, 1, 3, 0>>

\* One iteration of the request loop (lines 311-386): how it ended and, when
\* an output file is written, its content (the timestamp left out).
RequestOutcome(file) ==
    IF file.json.kind # "obj" THEN [status |-> "failed", written |-> FALSE]
    ELSE IF ~FolderExists(file.prefix) THEN [status |-> "nofolder", written |-> FALSE]
    ELSE LET pdf_files == PdfFiles(file.prefix)
             all_sections == AllSections(pdf_files)
         IN  IF pdf_files = <<>> THEN [status |-> "nopdfs", written |-> FALSE]
             ELSE IF all_sections = <<>> THEN [status |-> "nosections", written |-> FALSE]
             ELSE LET ranked_sections == RankSections(all_sections, MainTab)
                  IN  [status |-> "success", written |-> TRUE,
                       result |->
                          [input_documents |->
                              [k \in 1..Len(pdf_files) |-> Basename(pdf_files[k])],
                           persona |-> PersonaOf(file.json),
                           job_to_be_done |-> JobOf(file.json),
                           extracted_sections |-> ranked_sections,
                           subsection_analysis |-> ExtractSubsections(ranked_sections, 0)]]

\* A variant of the loop control that leaves the loop when a request is
\* skipped or fails.
AfterRequestBreak(status, done, total) ==
    IF done = total \/ status # "success" THEN "done" ELSE "requests"

\* Every way an iteration ends (the continue statements, the except clause,
\* the end of the body) goes on to the next request file.
AfterRequest(status, done, total) ==
    IF done = total THEN "done" ELSE "requests"

ProcessRequest ==
    /\ mPc = "requests"
    /\ mIdx < Len(mFiles)
    /\ LET file == mFiles[mIdx + 1]
           out == RequestOutcome(file)
       IN  /\ mLog' = Append(mLog, out.status)
           /\ mOut' = IF out.written
                      THEN {o \in mOut : o[1] # file.prefix} \cup {<<file.prefix, out.result>>}
                      ELSE mOut
           /\ mPc' = AfterRequest(out.status, mIdx + 1, Len(mFiles))
    /\ mIdx' = mIdx + 1
    /\ UNCHANGED mFiles
    /\ UNCHANGED <<headVars, rankVars, subVars>>

MainNext == ProcessRequest

MainInit ==
    /\ HeadIdle
    /\ RankIdle
    /\ SubIdle
    /\ \E n \in 1..MaxReqs : \E f \in [1..n -> RequestPool] :
          /\ \A i, j \in 1..n : i # j => f[i].prefix # f[j].prefix
          /\ mFiles = f
    /\ mIdx = 0 /\ mLog = <<>> /\ mOut = {}
    /\ mPc = "requests"

SpecMain == MainInit /\ [][MainNext]_vars

\* The request file is read as a JSON object.
Loaded(file) == file.json.kind = "obj"

\* The documents of the request's folder whose heading extraction does not
\* raise and yields candidates.
DocsWithCandidates(file) ==
    {k \in 1..Len(PdfFiles(file.prefix)) :
        /\ ~DocHeadings(PdfFiles(file.prefix)[k]).raises
        /\ DocHeadings(PdfFiles(file.prefix)[k]).sections # <<>>}

\* C5: a request that is skipped or fails never stops the loop: every
\* request file is processed, each gets the outcome it would get alone
\* (a request's outcome does not depend on the others, and within a
\* request a document whose extraction raises leaves the sections of the
\* other documents in place); a request whose folder is missing, holds no
\* documents or yields no candidates writes no output file.
C5_FailuresAreIsolated ==
    mPc = "done" =>
        /\ Len(mLog) = Len(mFiles)
        /\ \A i \in 1..Len(mFiles) :
              LET file == mFiles[i]
                  writes == /\ Loaded(file)
                            /\ FolderExists(file.prefix)
                            /\ DocsWithCandidates(file) # {}
              IN  /\ writes <=> (\E o \in mOut : o[1] = file.prefix)
                  /\ writes =>
                        /\ <<file.prefix, RequestOutcome(file).result>> \in mOut
                        /\ \A o \in mOut : o[1] = file.prefix =>
                              \A k \in DocsWithCandidates(file) :
                                 \E s \in Range(DocHeadings(PdfFiles(file.prefix)[k]).sections) :
                                    \E r \in Range(o[2].extracted_sections) :
                                       /\ r.document = Basename(PdfFiles(file.prefix)[k])
                                       /\ r.section_title = s.section_title
        /\ Cardinality(mOut) <= Len(mFiles)

\* C5 witness: a request that failed or was skipped came first, and a later
\* request, one of whose documents raised in heading extraction, wrote its
\* output.
C5_Witness ==
    /\ mPc = "done"
    /\ \E i, j \in 1..Len(mFiles) :
          /\ i < j
          /\ mLog[i] # "success"
          /\ mLog[j] = "success"
          /\ \E k \in 1..Len(PdfFiles(mFiles[j].prefix)) :
                DocHeadings(PdfFiles(mFiles[j].prefix)[k]).raises
          /\ \E o \in mOut : o[1] = mFiles[j].prefix

====
